---------------------------- MODULE Spec2Model ----------------------------
(***************************************************************************)
(* cache_size_vs_speedup.py: the Collector (parse_experiment_files), the   *)
(* Aggregator (the loops of plot_time_differences and                      *)
(* plot_time_differences_log2), the Renderer (their matplotlib calls) and  *)
(* main(), as one sequential state machine.                                *)
(*                                                                         *)
(* A file name exp_<digits>_<type>.txt is the record of its digit string   *)
(* and its type; a file's content is what open()/read() and the two        *)
(* regular expressions make of it: unreadable, text without the mixgraph   *)
(* line, or text whose first mixgraph line captures a token over [0-9.].   *)
(* Seconds are fixed-point numbers with FracDigits decimal places, which   *)
(* hold the value of every token of the model exactly.                     *)
(***************************************************************************)
EXTENDS Integers, Sequences, FiniteSets, TLC

\* ------------------------------------------------------------- bounds
MaxFiles   == 4    \* most entries os.listdir returns
FracDigits == 1    \* decimal places the fixed-point seconds keep

\* ---------------------------------------------------------- constants
MiB == 1048576     \* 1024 * 1024
Dot == -1          \* the character '.' of a token; the digits are 0 .. 9

VARIABLES
    pc,               \* where control is
    experiment_data,  \* the dict of parse_experiment_files, in insertion order
    seen,             \* the names os.listdir has yielded so far
    scan_msg,         \* the line the current loop iteration printed
    readable_data,    \* history: the table built from the readable entries alone
    mode,             \* which plotting function main calls
    series,           \* the parallel lists cache_sizes / time_differences
    console,          \* what main and the plotting function printed
    figure,           \* plt.figure(...) .. plt.tight_layout() has run
    xticks,           \* the tick labels handed to plt.xticks
    saved,            \* plt.savefig has written absolute_iaa_speedup.png
    shown             \* outcome of plt.show()

vars == <<pc, experiment_data, seen, scan_msg, readable_data, mode, series,
          console, figure, xticks, saved, shown>>

\* ------------------------------------------------------------ helpers
RECURSIVE Pow(_, _)
Pow(b, n) == IF n = 0 THEN 1 ELSE b * Pow(b, n - 1)

\* ------------------------------------------------- the input directory
\* A directory entry's name is exp_<size_str>_<type>.txt.  The directory may
\* hold exp_0_*, exp_1_* and exp_2_* for both types, exp_01_sw.txt (a second
\* spelling of cache size 1) and exp_1_SW.txt, which FILENAME_REGEX rejects.
FileNames ==
    [size_str : {<<0>>, <<1>>, <<2>>}, type : {"sw", "hw"}]
        \cup {[size_str |-> <<0, 1>>, type |-> "sw"], [size_str |-> <<1>>, type |-> "SW"]}

\* The tokens ([\d\.]+) may capture: "1", "2.5" and "1.2.3".
Tokens == {<<1>>, <<2, Dot, 5>>, <<1, Dot, 2, Dot, 3>>}

\* What open()/read() and re.search(MIXGRAPH_TIME_REGEX, content) make of a file.
Contents ==
    {[kind |-> "unreadable", token |-> <<>>], [kind |-> "no_line", token |-> <<>>]}
        \cup {[kind |-> "line", token |-> t] : t \in Tokens}

\* re.match(FILENAME_REGEX, filename): (\d+) needs at least one digit and
\* (sw|hw) one of the two lower-case tokens.
FilenameMatch(filename) == Len(filename.size_str) >= 1 /\ filename.type \in {"sw", "hw"}

\* int(cache_size_str): decimal, leading zeros ignored.
RECURSIVE ParseInt(_)
ParseInt(s) == IF s = <<>> THEN 0 ELSE 10 * ParseInt(SubSeq(s, 1, Len(s) - 1)) + s[Len(s)]

\* float(time_match.group(1)): at most one '.', at least one digit; the value
\* in units of 10^-FracDigits seconds.
DotPositions(tok) == {i \in 1 .. Len(tok) : tok[i] = Dot}

FloatOk(tok) == Cardinality(DotPositions(tok)) <= 1 /\ Len(tok) > Cardinality(DotPositions(tok))

ParseFloat(tok) ==
    LET dots == DotPositions(tok)
        d    == IF dots = {} THEN Len(tok) + 1 ELSE CHOOSE i \in dots : TRUE
        ip   == SubSeq(tok, 1, d - 1)
        fp   == SubSeq(tok, d + 1, Len(tok))
    IN  ParseInt(ip) * Pow(10, FracDigits) + ParseInt(fp) * Pow(10, FracDigits - Len(fp))

\* -------------------------------------------------- the ExperimentTable
EmptyDict == [t \in {} |-> 0]

Keys(ed) == {ed[i].cache_size : i \in 1 .. Len(ed)}

Index(ed, c) == CHOOSE i \in 1 .. Len(ed) : ed[i].cache_size = c

Get(ed, c) == ed[Index(ed, c)].data

Has(ed, c, t) == c \in Keys(ed) /\ t \in DOMAIN Get(ed, c)

\* Mutant: the entry is reset for every matched file (the `not in` test lost).
ResetEntry(ed, c) ==
    IF c \in Keys(ed)
    THEN [ed EXCEPT ![Index(ed, c)] = [cache_size |-> c, data |-> EmptyDict]]
    ELSE Append(ed, [cache_size |-> c, data |-> EmptyDict])

\* if cache_size not in experiment_data: experiment_data[cache_size] = {}
EnsureEntry(ed, c) ==
    IF c \in Keys(ed) THEN ed ELSE Append(ed, [cache_size |-> c, data |-> EmptyDict])

\* Mutant: a value already stored is kept (setdefault instead of assignment).
StoreFirstWins(ed, c, t, v) ==
    LET i   == Index(ed, c)
        old == ed[i].data
        new == [k \in DOMAIN old \cup {t} |-> IF k \in DOMAIN old THEN old[k] ELSE v]
    IN  [ed EXCEPT ![i] = [cache_size |-> c, data |-> new]]

\* experiment_data[cache_size][compression_type] = run_time_seconds
Store(ed, c, t, v) ==
    LET i   == Index(ed, c)
        old == ed[i].data
        new == [k \in DOMAIN old \cup {t} |-> IF k = t THEN v ELSE old[k]]
    IN  [ed EXCEPT ![i] = [cache_size |-> c, data |-> new]]

\* --------------------------------------------------------- the Collector
\* What the try block raises for a matched file: open()/read() raises OSError,
\* float() raises ValueError, or nothing is raised.
Raised(content) ==
    IF content.kind = "unreadable" THEN "OSError"
    ELSE IF content.kind = "line" /\ ~FloatOk(content.token) THEN "ValueError"
    ELSE "none"

\* Mutant: `except ValueError`, which lets a read failure through.
CaughtValueErrorOnly(exc) == exc = "ValueError"

\* except Exception as e: OSError and ValueError are both Exceptions.
Caught(exc) == exc \in {"OSError", "ValueError"}

\* What the else branch of `if time_match` does to the table: it only prints.
NoTimeMatch(ed, c, t) == ed

\* One iteration of the for loop over os.listdir(output_dir).
ProcessFile(ed, filename, content) ==
    IF ~FilenameMatch(filename)
    THEN [data |-> ed, msg |-> [kind |-> "skipping", filename |-> filename], escaped |-> FALSE]
    ELSE
        LET c   == ParseInt(filename.size_str)
            t   == filename.type
            ed1 == EnsureEntry(ed, c)
            exc == Raised(content)
        IN  IF exc # "none"
            THEN [data |-> ed1,
                  msg |-> [kind |-> "error_reading", filename |-> filename, error |-> exc],
                  escaped |-> ~Caught(exc)]
            ELSE IF content.kind = "line"
            THEN [data |-> Store(ed1, c, t, ParseFloat(content.token)),
                  msg |-> [kind |-> "parsed", filename |-> filename,
                           seconds |-> ParseFloat(content.token)],
                  escaped |-> FALSE]
            ELSE [data |-> NoTimeMatch(ed1, c, t),
                  msg |-> [kind |-> "could_not_find", filename |-> filename], escaped |-> FALSE]

NoMsg == [kind |-> "none", filename |-> [size_str |-> <<>>, type |-> "sw"]]

\* -------------------------------------------------------- the Aggregator
Min(S) == CHOOSE m \in S : \A n \in S : m <= n

RECURSIVE SortSet(_)
SortSet(S) == IF S = {} THEN <<>> ELSE <<Min(S)>> \o SortSet(S \ {Min(S)})

\* Mutant: the keys in the dict's own (insertion) order, `sorted` lost.
InsertionOrderKeys(ed) == [i \in 1 .. Len(ed) |-> ed[i].cache_size]

\* sorted(experiment_data.keys())
SortedKeys(ed) == SortSet(Keys(ed))

\* if 'sw' in data and 'hw' in data
Complete(data) == "sw" \in DOMAIN data /\ "hw" \in DOMAIN data

RECURSIVE FloorLog2(_)
FloorLog2(n) == IF n < 2 THEN 0 ELSE 1 + FloorLog2(n \div 2)

\* math.log2(cache_size) raises ValueError unless cache_size > 0.
Log2Defined(c) == c > 0

\* An x-coordinate is kept exactly, as an integer part and a rational rest:
\* cache_size / (1024 * 1024) is whole + num / den, and math.log2(cache_size)
\* is whole + log2(num / den) with 1 <= num / den < 2.  Either way x < y is
\* the lexicographic order on (whole, num / den).
XLinear(c) == [whole |-> c \div MiB, num |-> c % MiB, den |-> MiB]

XLog2(c) == [whole |-> FloorLog2(c), num |-> c, den |-> Pow(2, FloorLog2(c))]

XOf(m, c) == IF m = "log2" THEN XLog2(c) ELSE XLinear(c)

XLess(a, b) ==
    \/ a.whole < b.whole
    \/ a.whole = b.whole /\ a.num * b.den < b.num * a.den

\* Mutant: the else branch prints nothing.
SkipSilently(acc, c) == acc

\* The else branch of the loop: print "Missing SW or HW data for cache size
\* <c> bytes. Skipping." and append nothing.
SkipIncomplete(acc, c) ==
    [acc EXCEPT !.out = Append(@, [kind |-> "missing_sw_or_hw", cache_size |-> c])]

\* The if branch: the difference, the x-coordinate (which may raise), the
\* appends and the print.  cache_size names the entry; the lists hold x and delta.
TakeComplete(acc, data, m, c) ==
    IF m = "log2" /\ ~Log2Defined(c)
    THEN [acc EXCEPT !.raised = TRUE]
    ELSE [acc EXCEPT
            !.series = Append(@, [cache_size |-> c, x |-> XOf(m, c),
                                  delta |-> data["sw"] - data["hw"]]),
            !.out = Append(@, [kind |-> "pair", cache_size |-> c])]

\* One iteration of the loop over the sorted keys.
AggStep(acc, ed, m, c) ==
    IF acc.raised THEN acc
    ELSE IF Complete(Get(ed, c)) THEN TakeComplete(acc, Get(ed, c), m, c)
    ELSE SkipIncomplete(acc, c)

RECURSIVE AggLoop(_, _, _, _, _)
AggLoop(acc, ed, m, ks, i) ==
    IF i > Len(ks) THEN acc ELSE AggLoop(AggStep(acc, ed, m, ks[i]), ed, m, ks, i + 1)

\* The loop of plot_time_differences (m = "linear") or
\* plot_time_differences_log2 (m = "log2").
Aggregate(ed, m) ==
    AggLoop([series |-> <<>>, out |-> <<>>, raised |-> FALSE], ed, m, SortedKeys(ed), 1)

\* Mutant: the emptiness check is lost.
NeverNothingToPlot(s) == FALSE

\* if not cache_sizes: print("No complete data to plot."); return
NothingToPlot(s) == s = <<>>

\* cache_size_labels, with the tick positions, over sorted(cache_sizes_bytes).
TickLabel(cs) ==
    IF cs >= MiB THEN [at |-> XLog2(cs), n |-> cs \div MiB, unit |-> "MB"]
    ELSE [at |-> XLog2(cs), n |-> cs, unit |-> "B"]

TickLabels(s) ==
    LET cs == SortSet({s[i].cache_size : i \in 1 .. Len(s)})
    IN  [i \in 1 .. Len(cs) |-> TickLabel(cs[i])]

\* ------------------------------------------------------------ the state
TypeOK ==
    /\ pc \in {"start", "scan", "parsed", "figure", "save", "show", "returned",
               "done", "crashed"}
    /\ seen \subseteq FileNames
    /\ mode \in {"none", "log2", "linear"}
    /\ figure \in BOOLEAN
    /\ saved \in BOOLEAN
    /\ shown \in {"pending", "displayed", "no_display"}
    /\ Cardinality(Keys(experiment_data)) = Len(experiment_data)

Init ==
    /\ pc = "start"
    /\ experiment_data = <<>>
    /\ seen = {}
    /\ scan_msg = NoMsg
    /\ readable_data = <<>>
    /\ mode = "none"
    /\ series = <<>>
    /\ console = <<>>
    /\ figure = FALSE
    /\ xticks = <<>>
    /\ saved = FALSE
    /\ shown = "pending"

\* main: os.path.isdir(OUTPUT_DIR) is false.
MainDirMissing ==
    /\ pc = "start"
    /\ console' = Append(console, [kind |-> "dir_missing"])
    /\ pc' = "done"
    /\ UNCHANGED <<experiment_data, seen, scan_msg, readable_data, mode, series,
                   figure, xticks, saved, shown>>

\* main: the directory exists; parse_experiment_files starts with an empty dict.
MainStartParse ==
    /\ pc = "start"
    /\ console' = Append(console, [kind |-> "parsing"])
    /\ pc' = "scan"
    /\ UNCHANGED <<experiment_data, seen, scan_msg, readable_data, mode, series,
                   figure, xticks, saved, shown>>

\* The loop body, for the next entry of the listing.  readable_data follows
\* the same loop over the listing without its unreadable entries.
ProcessEntry ==
    /\ pc = "scan"
    /\ Cardinality(seen) < MaxFiles
    /\ \E filename \in FileNames \ seen, content \in Contents :
          LET r == ProcessFile(experiment_data, filename, content)
          IN  /\ experiment_data' = r.data
              /\ scan_msg' = r.msg
              /\ seen' = seen \cup {filename}
              /\ readable_data' =
                    IF FilenameMatch(filename) /\ content.kind = "unreadable"
                    THEN readable_data
                    ELSE ProcessFile(readable_data, filename, content).data
              /\ pc' = IF r.escaped THEN "crashed" ELSE "scan"
    /\ UNCHANGED <<mode, series, console, figure, xticks, saved, shown>>

\* The listing is exhausted: `return experiment_data`, which ends the life of
\* the function's other locals.
EndScan ==
    /\ pc = "scan"
    /\ pc' = "parsed"
    /\ seen' = {}
    /\ scan_msg' = NoMsg
    /\ readable_data' = <<>>
    /\ UNCHANGED <<experiment_data, mode, series, console, figure, xticks, saved, shown>>

\* main: `if not experiment_data`.
MainNoData ==
    /\ pc = "parsed"
    /\ experiment_data = <<>>
    /\ console' = Append(console, [kind |-> "no_valid_data"])
    /\ pc' = "done"
    /\ UNCHANGED <<experiment_data, seen, scan_msg, readable_data, mode, series,
                   figure, xticks, saved, shown>>

\* main calls the plotting function m, which runs its loop and its
\* `if not cache_sizes` check.
Plot(m) ==
    /\ pc = "parsed"
    /\ experiment_data # <<>>
    /\ LET r == Aggregate(experiment_data, m)
       IN  /\ mode' = m
           /\ series' = r.series
           /\ console' = (console \o <<[kind |-> "plotting"]>> \o r.out)
                            \o (IF ~r.raised /\ NothingToPlot(r.series)
                                THEN <<[kind |-> "no_complete_data"]>> ELSE <<>>)
           /\ pc' = IF r.raised THEN "crashed"
                    ELSE IF NothingToPlot(r.series) THEN "returned"
                    ELSE "figure"
    /\ UNCHANGED <<experiment_data, seen, scan_msg, readable_data, figure, xticks,
                   saved, shown>>

\* main as written: plot_time_differences_log2(experiment_data).
PlotLog2 == Plot("log2")

\* main with its commented-out call: plot_time_differences(experiment_data).
PlotLinear == Plot("linear")

\* plt.figure .. plt.tight_layout, with plt.xticks in the log2 function.
CreateFigure ==
    /\ pc = "figure"
    /\ figure' = TRUE
    /\ xticks' = IF mode = "log2" THEN TickLabels(series) ELSE <<>>
    /\ pc' = "save"
    /\ UNCHANGED <<experiment_data, seen, scan_msg, readable_data, mode, series,
                   console, saved, shown>>

\* plt.savefig(plot_filename) and the print after it.
SaveFigure ==
    /\ pc = "save"
    /\ saved' = TRUE
    /\ console' = Append(console, [kind |-> "plot_saved"])
    /\ pc' = "show"
    /\ UNCHANGED <<experiment_data, seen, scan_msg, readable_data, mode, series,
                   figure, xticks, shown>>

\* Mutant: plt.show() placed before plt.savefig().
AtShowBeforeSave == pc = "save"

\* Control is at plt.show(), the last statement of the plotting function.
AtShow == pc = "show"

\* plt.show(): a window, or (no display) no window; it returns either way.
ShowFigure ==
    /\ AtShow
    /\ \E outcome \in {"displayed", "no_display"} : shown' = outcome
    /\ pc' = "returned"
    /\ UNCHANGED <<experiment_data, seen, scan_msg, readable_data, mode, series,
                   console, figure, xticks, saved>>

\* main: print("Done.")
MainDone ==
    /\ pc = "returned"
    /\ console' = Append(console, [kind |-> "done"])
    /\ pc' = "done"
    /\ UNCHANGED <<experiment_data, seen, scan_msg, readable_data, mode, series,
                   figure, xticks, saved, shown>>

Next ==
    \/ MainDirMissing
    \/ MainStartParse
    \/ ProcessEntry
    \/ EndScan
    \/ MainNoData
    \/ PlotLog2
    \/ PlotLinear
    \/ CreateFigure
    \/ SaveFigure
    \/ ShowFigure
    \/ MainDone

Spec == Init /\ [][Next]_vars

\* ------------------------------------------------------------ the claims
SizeOf(filename) == ParseInt(filename.size_str)

\* The (cache_size, mode, value) triples a table holds.
Values(ed) ==
    {<<c, t, Get(ed, c)[t]>> : <<c, t>> \in
        {ct \in Keys(ed) \X {"sw", "hw"} : ct[2] \in DOMAIN Get(ed, ct[1])}}

InSeries(c) == \E i \in 1 .. Len(series) : series[i].cache_size = c

OneSided(c) == Cardinality(DOMAIN Get(experiment_data, c)) = 1

NoCompletePair == \A c \in Keys(experiment_data) : ~Complete(Get(experiment_data, c))

Printed(kind) == \E i \in 1 .. Len(console) : console[i].kind = kind

PrintedFor(kind, c) ==
    \E i \in 1 .. Len(console) : console[i].kind = kind /\ console[i].cache_size = c

\* C1: a run of main() in its log2 mode never ends in a crash: no exception
\* escapes main(), whatever the directory holds (cache size 0 included).
C1_NoFatalError == mode \in {"none", "log2"} => pc # "crashed"

\* C2: once a plotting function (linear or log2) has run its loop on the
\* Collector's table, the DeltaSeries has an entry for a cache size iff both
\* a software and a hardware time are recorded for it, and the entry's delta
\* is software_time - hardware_time.
C2_DeltaSeriesExact ==
    mode # "none" =>
        /\ \A c \in Keys(experiment_data) :
              InSeries(c) <=> Complete(Get(experiment_data, c))
        /\ \A i \in 1 .. Len(series) :
              /\ series[i].cache_size \in Keys(experiment_data)
              /\ Complete(Get(experiment_data, series[i].cache_size))
              /\ series[i].delta = Get(experiment_data, series[i].cache_size)["sw"]
                                    - Get(experiment_data, series[i].cache_size)["hw"]

\* C3: when the file the scan ends on matched the name pattern but held no
\* mixgraph line, and no file yielded a value for its cache size N, then N is
\* not a key of the table parse_experiment_files returns.
C3_UnparsedAbsent ==
    [][(pc = "scan" /\ pc' = "parsed" /\ scan_msg.kind = "could_not_find")
        => ~ (/\ SizeOf(scan_msg.filename) \in Keys(experiment_data')
              /\ DOMAIN Get(experiment_data', SizeOf(scan_msg.filename)) = {})]_vars

\* C4: last-write-wins: processing a file with a parsable seconds value
\* replaces whatever the table held for the file's (cache_size, mode) pair by
\* the file's value and leaves every other pair alone, and no other step of
\* the scan changes a stored value; so the table holds one value per pair,
\* that of the last parsable file processed for it.
C4_LastWriteWins ==
    [][(pc = "scan" /\ seen' # seen) =>
          IF scan_msg'.kind = "parsed"
          THEN Values(experiment_data') =
                  {v \in Values(experiment_data) :
                      <<v[1], v[2]>> # <<SizeOf(scan_msg'.filename), scan_msg'.filename.type>>}
                  \cup {<<SizeOf(scan_msg'.filename), scan_msg'.filename.type,
                          scan_msg'.seconds>>}
          ELSE Values(experiment_data') = Values(experiment_data)]_vars

\* C4 witness: exp_01_sw.txt was parsed after exp_1_sw.txt had been
\* processed, and the table holds the later file's 2.5 s for (1, sw).
C4_Witness ==
    /\ pc = "scan"
    /\ scan_msg.kind = "parsed"
    /\ scan_msg.filename = [size_str |-> <<0, 1>>, type |-> "sw"]
    /\ seen = {[size_str |-> <<1>>, type |-> "sw"], [size_str |-> <<0, 1>>, type |-> "sw"]}
    /\ Values(readable_data) = {<<1, "sw", ParseFloat(<<2, Dot, 5>>)>>}
    /\ Values(experiment_data) = {<<1, "sw", ParseFloat(<<2, Dot, 5>>)>>}

\* C5: a read failure never aborts the scan, and the values the table holds
\* are those of the same scan over the listing without the unreadable
\* entries.
C5_ReadFailureSkipped ==
    /\ scan_msg.kind = "error_reading" => pc = "scan"
    /\ pc = "scan" => Values(experiment_data) = Values(readable_data)

\* C5 witness: an unreadable entry left a key of its own behind, and entries
\* processed before or after it have their values in the table.
C5_Witness ==
    /\ pc = "scan"
    /\ scan_msg.kind = "parsed"
    /\ Len(experiment_data) > Len(readable_data)
    /\ Cardinality(Values(experiment_data)) >= 2

\* C6 as claimed: a cache size with exactly one mode recorded is kept out of
\* the DeltaSeries and a message says which side is missing (hw when only sw
\* is recorded, sw when only hw is).
C6_SaysWhichSide ==
    mode # "none" =>
        \A c \in Keys(experiment_data) :
            OneSided(c) =>
                /\ ~InSeries(c)
                /\ PrintedFor(IF "sw" \in DOMAIN Get(experiment_data, c)
                              THEN "missing_hw" ELSE "missing_sw", c)

\* C6 amended: a cache size with exactly one mode recorded is kept out of the
\* DeltaSeries; the loop prints for it the one message "Missing SW or HW data
\* for cache size <N> bytes", which does not say which side is missing, and it
\* prints it in every run of the loop except one that math.log2 ends.
C6_MissingEitherSide ==
    mode # "none" =>
        /\ \A c \in Keys(experiment_data) :
              OneSided(c) =>
                /\ ~InSeries(c)
                /\ PrintedFor("missing_sw_or_hw", c) <=> pc # "crashed"
        /\ ~Printed("missing_hw") /\ ~Printed("missing_sw")

\* C6 witness: only a software time is recorded for a cache size and the
\* loop has printed its message for it.
C6_Witness ==
    /\ mode = "log2"
    /\ \E c \in Keys(experiment_data) :
          /\ DOMAIN Get(experiment_data, c) = {"sw"}
          /\ PrintedFor("missing_sw_or_hw", c)

\* C7: while no cache size has both a software and a hardware time, the
\* renderer is never invoked (no figure, no saved file, no chart shown, no
\* crash), and a run that has ended has reported the emptiness.
C7_NothingToPlotStops ==
    NoCompletePair =>
        /\ ~figure /\ ~saved /\ shown = "pending"
        /\ pc \notin {"figure", "save", "show", "crashed"}
        /\ pc = "done" =>
              \/ Printed("dir_missing")
              \/ Printed("no_valid_data")
              \/ Printed("no_complete_data")

\* C7 witness: a run over unpaired records alone has ended.
C7_Witness ==
    /\ pc = "done"
    /\ experiment_data # <<>>
    /\ NoCompletePair
    /\ \E c \in Keys(experiment_data) : OneSided(c)
    /\ Printed("no_complete_data")

\* C8: the figure is saved before it is presented: plt.show() is reached, and
\* has returned (with or without a display), only after plt.savefig().
C8_SaveBeforeShow ==
    /\ pc = "show" => saved
    /\ shown # "pending" => saved
    /\ (figure /\ pc \in {"returned", "done"}) => saved

\* C8 witness: the show step found no display and the file is written.
C8_Witness == shown = "no_display" /\ saved /\ pc = "done"

C10_FailureKeepsValues ==
    [][(pc = "scan" /\ seen' # seen
            /\ scan_msg'.kind \in {"error_reading", "could_not_find"})
        => Values(experiment_data') = Values(experiment_data)]_vars

\* C10 witness: float() rejected the token of a file whose pair holds the
\* value an earlier file stored.
C10_Witness ==
    /\ pc = "scan"
    /\ scan_msg.kind = "error_reading"
    /\ scan_msg.error = "ValueError"
    /\ Has(experiment_data, SizeOf(scan_msg.filename), scan_msg.filename.type)

=============================================================================
